---- MODULE Spec2Model ----
(***************************************************************************)
(* Model of the inbound carrier sales API (app/main.py, app/telemetry.py) *)
(* and of the carrier registry client (app/fmcsa.py).                      *)
(*                                                                         *)
(* The negotiation part models the /evaluate_offer handler: request        *)
(* parsing (EvaluateIn), the API key check, session id resolution, the cap *)
(* computation (compute_cap), the accept / counter decision and the        *)
(* telemetry rows the handler writes (sessions and events tables).         *)
(*                                                                         *)
(* Conventions                                                             *)
(*  - A JSON field is Omitted, Null or Val(x); a Python Optional is Null or *)
(*    Val(x).                                                              *)
(*  - A string that the code inspects character by character (the          *)
(*    equipment type) is a tuple of ASCII codes, so that str.lower() is    *)
(*    computed and not assumed.                                            *)
(*  - Python floats: 0.25 * listed_rate, x / 25.0 and gap * ratio are      *)
(*    computed in exact rational arithmetic.  The float results agree with *)
(*    the rational ones for every |x| < 5250, which covers the amounts     *)
(*    drawn below (gap * 0.35 first deviates at gap = 5250).               *)
(*  - Timestamps are abstracted: ended_at is FALSE (NULL) or TRUE (set).   *)
(*  - The events table is abstracted to the set of its distinct            *)
(*    (session_id, type) pairs; row ids, timestamps and payloads are       *)
(*    dropped.                                                             *)
(***************************************************************************)
EXTENDS Integers, Sequences, FiniteSets, TLC

VARIABLES
    load,       \* load facts sent with every request of the session
    req,        \* the last /evaluate_offer request (parsed EvaluateIn + headers)
    resp,       \* the response to it
    cap0,       \* cap_rate of the first answered request for this load
    fromStart,  \* the requests so far form a session started at round 1, our_offer = listed
    prevNext,   \* next_offer of the response that req was threaded from, else <<>>
    sessions,   \* telemetry table sessions
    events,     \* telemetry table events (distinct (session_id, type) pairs)
    uuids,      \* number of uuid4 session ids generated so far
    capIn,      \* arguments of a direct compute_cap call
    capOut,     \* its result, <<>> before the call
    memo,       \* inputs and decision of the first answered /evaluate_offer request
    vreq,       \* the last /verify_carrier request and the upstream's behaviour
    vresp,      \* the response to it
    served,     \* the number of requests the API has served
    registry,   \* what the carrier registry knows and the shapes it answers in
    mcIn,       \* the carrier string verify_mc was called with
    pc,         \* where verify_mc is: idle, the endpoint being fetched, returned, raised
    call,       \* the latest _get_json call: endpoint, attempts so far, state, exception
    fetched,    \* the endpoints a GET was sent to
    out         \* the VerifyResult being built

negVars == <<load, req, resp, cap0, fromStart, prevNext, sessions, events, uuids>>
capVars == <<capIn, capOut>>
apiVars == <<memo, vreq, vresp, served>>
regVars == <<registry, mcIn, pc, call, fetched, out>>
vars == <<negVars, capVars, apiVars, regVars>>

----------------------------------------------------------------------------
(* Bounds of the model *)

\* a threaded session is followed up to this round number
MaxRound == 4

\* direct compute_cap calls take listed rates from -MaxBelowZero to MaxListed
MaxBelowZero == 60
MaxListed == 2100

----------------------------------------------------------------------------
(* Values *)

Omitted == [k |-> "omitted", v |-> <<>>]
Null == [k |-> "null", v |-> <<>>]
Val(x) == [k |-> "value", v |-> <<x>>]
IsVal(f) == f.k = "value"
Get(f) == f.v[1]

\* "reefer", "flatbed" and the equipment strings callers send
s_reefer == <<114, 101, 101, 102, 101, 114>>
s_flatbed == <<102, 108, 97, 116, 98, 101, 100>>
s_Reefer == <<82, 101, 101, 102, 101, 114>>
s_FLATBED == <<70, 76, 65, 84, 66, 69, 68>>
s_DryVan == <<68, 114, 121, 32, 86, 97, 110>>
s_empty == <<>>

\* str.lower() on ASCII text
LowerChar(c) == IF c >= 65 /\ c <= 90 THEN c + 32 ELSE c
lower(s) == [i \in DOMAIN s |-> LowerChar(s[i])]

\* session ids: <<>> is "no id", <<"given", n>> a caller's id, <<"uuid", n>> a generated one
NoSid == <<>>

API_KEY == "supersecret123"

Max(a, b) == IF a >= b THEN a ELSE b
Min(a, b) == IF a <= b THEN a ELSE b

\* int(x) of the float n / d (d > 0): truncation toward zero
TruncDiv(n, d) == IF n >= 0 THEN n \div d ELSE -((-n) \div d)

\* round(n / d) of Python 3 (d > 0): nearest integer, ties to the even one
PyRound(n, d) ==
    LET q == n \div d
        r == n % d
    IN  IF 2 * r < d THEN q
        ELSE IF 2 * r > d THEN q + 1
        ELSE IF q % 2 = 0 THEN q ELSE q + 1

----------------------------------------------------------------------------
(* Pure functions of app/main.py *)

\* round_to_25(x) for x = n / d: int(round(x / 25.0) * 25)
round_to_25(n, d) == PyRound(n, 25 * d) * 25

\* compute_cap comparing the equipment type without lower()
compute_cap_case_sensitive(listed_rate, miles, equipment_type) ==
    LET base == Min(325, TruncDiv(25 * listed_rate, 100))
        et == IF IsVal(equipment_type) THEN Get(equipment_type) ELSE s_empty
        equip_add == IF et \in {s_reefer, s_flatbed} THEN 75 ELSE 0
        shorthaul_add == IF IsVal(miles) /\ Get(miles) < 300 THEN 50 ELSE 0
        cap == listed_rate + base + equip_add + shorthaul_add
    IN  round_to_25(cap, 1)

\* compute_cap(listed_rate, miles, equipment_type); miles and equipment_type are Optionals
compute_cap(listed_rate, miles, equipment_type) ==
    LET base == Min(325, TruncDiv(25 * listed_rate, 100))
        et == IF IsVal(equipment_type) THEN Get(equipment_type) ELSE s_empty
        equip_add == IF lower(et) \in {s_reefer, s_flatbed} THEN 75 ELSE 0
        shorthaul_add == IF IsVal(miles) /\ Get(miles) < 300 THEN 50 ELSE 0
        cap == listed_rate + base + equip_add + shorthaul_add
    IN  round_to_25(cap, 1)

\* EvaluateIn: the parsed request body; omitted optional fields take their defaults
EvaluateIn(listed_rate, our_offer, carrier_offer, miles, equipment_type, round, session_id) ==
    [ listed_rate |-> listed_rate,
      our_offer |-> our_offer,
      carrier_offer |-> carrier_offer,
      miles |-> IF miles = Omitted THEN Val(0) ELSE miles,
      equipment_type |-> IF equipment_type = Omitted THEN Val(s_DryVan) ELSE equipment_type,
      round |-> round,
      session_id |-> session_id ]

\* the cap moved by the carrier's ask
cap_of_request_by_ask(p) ==
    compute_cap(Max(p.listed_rate, p.carrier_offer), p.miles,
                IF IsVal(p.equipment_type) THEN p.equipment_type ELSE Val(s_empty))

\* evaluate_offer, the cap of a request: equip = p.equipment_type or "", cap = compute_cap(...)
cap_of_request(p) ==
    compute_cap(p.listed_rate, p.miles,
                IF IsVal(p.equipment_type) THEN p.equipment_type ELSE Val(s_empty))

\* the accept test with "or" between the late-round test and the gap test
accept_condition_or(cap, prev, ask, rnd) ==
    ask <= cap /\ (ask <= prev \/ (rnd >= 3 \/ (ask - prev) <= 50))

\* the accept test with the late-round threshold at round 2
accept_condition_round2(cap, prev, ask, rnd) ==
    ask <= cap /\ (ask <= prev \/ (rnd >= 2 /\ (ask - prev) <= 50))

\* evaluate_offer, the accept test
accept_condition(cap, prev, ask, rnd) ==
    ask <= cap /\ (ask <= prev \/ (rnd >= 3 /\ (ask - prev) <= 50))

\* the concession ratio in percent: {1: 0.35, 2: 0.25, 3: 0.20}.get(rnd, 0.15)
ratio_pct(rnd) ==
    IF rnd = 1 THEN 35 ELSE IF rnd = 2 THEN 25 ELSE IF rnd = 3 THEN 20 ELSE 15

\* evaluate_offer, the counter branch up to the monotonic guarantee: the offer
\* after the concession step, before the final-round step
concession_step(cap, prev, ask, rnd) ==
    LET target == Min(cap, ask)
        gap == target - prev
        increment == Max(25, round_to_25(gap * ratio_pct(rnd), 100))
        n1 == IF gap <= 0 THEN prev ELSE Min(cap, prev + increment)
    IN  IF n1 < prev THEN prev ELSE n1

\* a counter offer that never concedes
counter_offer_holding(cap, prev, ask, rnd) == prev

\* a counter offer that goes straight to the target, above or below our last offer
counter_offer_to_target(cap, prev, ask, rnd) == Min(cap, ask)

\* a counter offer whose concession is not held under the cap
counter_offer_unclamped(cap, prev, ask, rnd) ==
    LET target == Min(cap, ask)
        gap == target - prev
        increment == Max(25, round_to_25(gap * ratio_pct(rnd), 100))
    IN  IF gap <= 0 THEN prev ELSE prev + increment

\* a counter offer that concedes 25 more for every telemetry event logged so far
counter_offer_by_history(cap, prev, ask, rnd) ==
    LET target == Min(cap, ask)
        gap == target - prev
        increment == Max(25, round_to_25(gap * ratio_pct(rnd), 100))
        n1 == IF gap <= 0 THEN prev ELSE Min(cap, prev + increment + 25 * Cardinality(events))
        n2 == IF n1 < prev THEN prev ELSE n1
        n3 == IF rnd >= 3 /\ n2 < target THEN Min(cap, Max(prev, n2)) ELSE n2
    IN  n3

\* evaluate_offer, the counter branch: the next offer
counter_offer(cap, prev, ask, rnd) ==
    LET target == Min(cap, ask)
        gap == target - prev
        increment == Max(25, round_to_25(gap * ratio_pct(rnd), 100))
        n1 == IF gap <= 0 THEN prev ELSE Min(cap, prev + increment)
        n2 == IF n1 < prev THEN prev ELSE n1
        n3 == IF rnd >= 3 /\ n2 < target THEN Min(cap, Max(prev, n2)) ELSE n2
    IN  n3

\* the response of a request that was turned away (HTTPException) or not yet answered
Response(status) ==
    [ status |-> status, decision |-> "none", next_offer |-> 0, round_next |-> 0,
      cap_rate |-> 0, session_id |-> NoSid ]

\* evaluate_offer, the accept response
accept_response(ask, rnd, cap, sid) ==
    [ status |-> 200, decision |-> "accept", next_offer |-> ask, round_next |-> rnd + 1,
      cap_rate |-> cap, session_id |-> sid ]

\* the counter response handing back the same round number
counter_response_same_round(next_offer, rnd, cap, sid) ==
    [ status |-> 200, decision |-> "counter", next_offer |-> next_offer, round_next |-> rnd,
      cap_rate |-> cap, session_id |-> sid ]

\* evaluate_offer, the counter response
counter_response(next_offer, rnd, cap, sid) ==
    [ status |-> 200, decision |-> "counter", next_offer |-> next_offer, round_next |-> rnd + 1,
      cap_rate |-> cap, session_id |-> sid ]

\* evaluate_offer conceding from the listed rate: the caller's our_offer is ignored
evaluate_offer_ignoring_our_offer(p, sid) ==
    LET prev == p.listed_rate
        ask == p.carrier_offer
        rnd == p.round
        cap == cap_of_request(p)
    IN  IF accept_condition(cap, prev, ask, rnd)
        THEN accept_response(ask, rnd, cap, sid)
        ELSE counter_response(counter_offer(cap, prev, ask, rnd), rnd, cap, sid)

\* evaluate_offer, from the parsed request and the resolved session id to the response
evaluate_offer(p, sid) ==
    LET listed == p.listed_rate
        prev == p.our_offer
        ask == p.carrier_offer
        rnd == p.round
        cap == cap_of_request(p)
    IN  IF accept_condition(cap, prev, ask, rnd)
        THEN accept_response(ask, rnd, cap, sid)
        ELSE counter_response(counter_offer(cap, prev, ask, rnd), rnd, cap, sid)

----------------------------------------------------------------------------
(* Telemetry helpers of app/telemetry.py, as functions of the tables *)

\* a fresh sessions row: INSERT ... (session_id, started_at, caller), ended_at NULL
SessionRow(sid, caller) ==
    [ session_id |-> sid, ended_at |-> FALSE, caller |-> caller, outcome |-> Null ]

\* INSERT OR IGNORE INTO sessions: session_id is the primary key
InsertOrIgnore(tbl, row) ==
    IF \E r \in tbl : r.session_id = row.session_id THEN tbl ELSE tbl \cup {row}

\* start_session(caller, session_id): the sessions table afterwards (sid is the id used)
start_session(tbl, caller, sid) == InsertOrIgnore(tbl, SessionRow(sid, caller))

\* log_event, the sessions table afterwards: the session is auto-created if unknown
log_event_sessions(tbl, sid) == InsertOrIgnore(tbl, SessionRow(sid, Null))

\* log_event, the events table afterwards
log_event_events(tbl, sid, type) == tbl \cup {[ session_id |-> sid, type |-> type ]}

\* a summary dict: the number of its keys and its "outcome" entry; {} is falsy
Summary(keys, outcome) == [ keys |-> keys, outcome |-> outcome ]
Truthy(summary) == IsVal(summary) /\ Get(summary).keys > 0

\* end_session, the sessions table after the UPDATE (no row is touched if the id is unknown)
end_session_update(tbl, sid, summary) ==
    { IF r.session_id # sid THEN r
      ELSE IF Truthy(summary)
           THEN [r EXCEPT !.ended_at = TRUE, !.outcome = Get(summary).outcome]
           ELSE [r EXCEPT !.ended_at = TRUE] : r \in tbl }

\* end_session(session_id, summary), the sessions table afterwards: with a summary
\* the UPDATE is followed by log_event(session_id, "summary", summary)
end_session_sessions(tbl, sid, summary) ==
    IF Truthy(summary)
    THEN log_event_sessions(end_session_update(tbl, sid, summary), sid)
    ELSE end_session_update(tbl, sid, summary)

\* end_session, the events table afterwards
end_session_events(tbl, sid, summary) ==
    IF Truthy(summary) THEN log_event_events(tbl, sid, "summary") ELSE tbl

----------------------------------------------------------------------------
(* JSON values as the registry client of app/fmcsa.py sees them after r.json() *)

\* a JSON value: null, an integer, a string (ASCII codes), a dict (its items in
\* order, each a key and a value) or a list (its items in order, keys unused)
JNull == [ t |-> "null", n |-> 0, s |-> <<>>, items |-> <<>> ]
JInt(n) == [ t |-> "int", n |-> n, s |-> <<>>, items |-> <<>> ]
JStr(s) == [ t |-> "str", n |-> 0, s |-> s, items |-> <<>> ]
Item(k, v) == [ k |-> k, v |-> v ]
JDict(items) == [ t |-> "dict", n |-> 0, s |-> <<>>, items |-> items ]
JList(values) ==
    [ t |-> "list", n |-> 0, s |-> <<>>,
      items |-> [ i \in DOMAIN values |-> Item(<<>>, values[i]) ] ]

\* Python truthiness: None, 0, "", {} and [] are falsy
Falsy(v) ==
    \/ v.t = "null"
    \/ v.t = "int" /\ v.n = 0
    \/ v.t = "str" /\ v.s = <<>>
    \/ v.t \in {"dict", "list"} /\ v.items = <<>>

\* a or b
PyOr(a, b) == IF Falsy(a) THEN b ELSE a

\* the smallest member of a non-empty set of integers
First(S) == CHOOSE j \in S : \A k \in S : j <= k
\* the largest member of a non-empty set of integers
Last(S) == CHOOSE j \in S : \A k \in S : j >= k

\* str(n) of a non-negative integer
RECURSIVE DecStr(_)
DecStr(n) == IF n < 10 THEN <<48 + n>> ELSE DecStr(n \div 10) \o <<48 + (n % 10)>>

\* str(v): "None", the decimal digits, the string itself; of a container only
\* the brackets are kept (no container is drawn as a flag or an id)
PyStr(v) ==
    CASE v.t = "null" -> <<78, 111, 110, 101>>
      [] v.t = "int" -> DecStr(v.n)
      [] v.t = "str" -> v.s
      [] v.t = "dict" -> <<123, 125>>
      [] v.t = "list" -> <<91, 93>>

\* str.upper() on ASCII text
UpperChar(c) == IF c >= 97 /\ c <= 122 THEN c - 32 ELSE c
upper(s) == [ i \in DOMAIN s |-> UpperChar(s[i]) ]

\* t in s, for strings
Contains(t, s) == \E i \in 1 .. (Len(s) - Len(t) + 1) : SubSeq(s, i, i + Len(t) - 1) = t

\* a step of a path: a dict key or a list index
Key(k) == [ int |-> FALSE, k |-> k, i |-> 0 ]
Idx(i) == [ int |-> TRUE, k |-> <<>>, i |-> i ]

\* the field names the client looks for
k_content == <<99, 111, 110, 116, 101, 110, 116>>
k_carrier == <<99, 97, 114, 114, 105, 101, 114>>
k_dotNumber == <<100, 111, 116, 78, 117, 109, 98, 101, 114>>
k_items == <<105, 116, 101, 109, 115>>
k_allowToOperate == <<97, 108, 108, 111, 119, 84, 111, 79, 112, 101, 114, 97, 116, 101>>
k_outOfService == <<111, 117, 116, 79, 102, 83, 101, 114, 118, 105, 99, 101>>
k_commonAuthorityStatus == <<99, 111, 109, 109, 111, 110, 65, 117, 116, 104, 111, 114, 105, 116, 121, 83, 116, 97, 116, 117, 115>>
k_contractAuthorityStatus == <<99, 111, 110, 116, 114, 97, 99, 116, 65, 117, 116, 104, 111, 114, 105, 116, 121, 83, 116, 97, 116, 117, 115>>
k_brokerAuthorityStatus == <<98, 114, 111, 107, 101, 114, 65, 117, 116, 104, 111, 114, 105, 116, 121, 83, 116, 97, 116, 117, 115>>
k_authorizedForProperty == <<97, 117, 116, 104, 111, 114, 105, 122, 101, 100, 70, 111, 114, 80, 114, 111, 112, 101, 114, 116, 121>>
k_authorizedForPassenger == <<97, 117, 116, 104, 111, 114, 105, 122, 101, 100, 70, 111, 114, 80, 97, 115, 115, 101, 110, 103, 101, 114>>
k_authorizedForHouseholdGoods == <<97, 117, 116, 104, 111, 114, 105, 122, 101, 100, 70, 111, 114, 72, 111, 117, 115, 101, 104, 111, 108, 100, 71, 111, 111, 100, 115>>

----------------------------------------------------------------------------
(* Helpers of app/fmcsa.py *)

BASE == <<104, 116, 116, 112, 115, 58, 47, 47, 109, 111, 98, 105, 108, 101, 46, 102, 109, 99, 115, 97, 46, 100, 111, 116, 46, 103, 111, 118, 47, 113, 99, 47, 115, 101, 114, 118, 105, 99, 101, 115>>
DEFAULT_TIMEOUT == 10
RETRIES == 2

\* str.isdigit() on ASCII text
IsDigit(c) == c >= 48 /\ c <= 57

\* _digits(s)
_digits(s) == SelectSeq(s, IsDigit)

\* _dig(obj, path): case-sensitive keys, None when a step is missing
RECURSIVE _dig(_, _)
_dig(cur, path) ==
    IF path = <<>> THEN cur
    ELSE LET p == Head(path)
         IN  IF p.int
             THEN IF cur.t = "list" /\ 0 <= p.i /\ p.i < Len(cur.items)
                  THEN _dig(cur.items[p.i + 1].v, Tail(path))
                  ELSE JNull
             ELSE LET hits == IF cur.t = "dict"
                              THEN { j \in DOMAIN cur.items : cur.items[j].k = p.k }
                              ELSE {}
                  IN  IF hits # {} THEN _dig(cur.items[First(hits)].v, Tail(path))
                      ELSE JNull

\* _get_case_insensitive(obj, path): keys compared after lower(); of several
\* keys with the same lower() the last one wins (lowered is a dict comprehension)
RECURSIVE _get_case_insensitive(_, _)
_get_case_insensitive(cur, path) ==
    IF path = <<>> THEN cur
    ELSE LET key == Head(path)
         IN  IF key.int
             THEN IF cur.t = "list" /\ 0 <= key.i /\ key.i < Len(cur.items)
                  THEN _get_case_insensitive(cur.items[key.i + 1].v, Tail(path))
                  ELSE JNull
             ELSE LET hits == IF cur.t = "dict"
                              THEN { j \in DOMAIN cur.items :
                                        lower(cur.items[j].k) = lower(key.k) }
                              ELSE {}
                  IN  IF hits # {}
                      THEN _get_case_insensitive(cur.items[Last(hits)].v, Tail(path))
                      ELSE JNull

\* _scan_for_key(obj, target): depth-first, the value of the first key that
\* equals target after lower(); scan_items looks at the items from the j-th on
RECURSIVE _scan_for_key(_, _), scan_items(_, _, _)
scan_items(obj, target, j) ==
    IF j > Len(obj.items) THEN JNull
    ELSE IF obj.t = "dict" /\ lower(obj.items[j].k) = lower(target) THEN obj.items[j].v
    ELSE LET found == _scan_for_key(obj.items[j].v, target)
         IN  IF found # JNull THEN found ELSE scan_items(obj, target, j + 1)

_scan_for_key(obj, target) ==
    IF obj.t \in {"dict", "list"} THEN scan_items(obj, target, 1) ELSE JNull

\* the shapes _extract_dot_from_docket tries, in order
dot_paths ==
    << <<Key(k_content), Idx(0), Key(k_carrier), Key(k_dotNumber)>>,
       <<Key(k_content), Idx(0), Key(k_dotNumber)>>,
       <<Key(k_carrier), Key(k_dotNumber)>>,
       <<Key(k_dotNumber)>>,
       <<Key(k_items), Idx(0), Key(k_carrier), Key(k_dotNumber)>> >>

\* the fallback of _extract_dot_from_docket: scan the containers among the values
\* of a dict payload, from the j-th item on
RECURSIVE dot_fallback(_, _)
dot_fallback(payload, j) ==
    IF payload.t # "dict" \/ j > Len(payload.items) THEN JNull
    ELSE LET v == payload.items[j].v
             found == IF v.t \in {"dict", "list"} THEN _scan_for_key(v, k_dotNumber)
                      ELSE JNull
         IN  IF ~Falsy(found) THEN JStr(PyStr(found)) ELSE dot_fallback(payload, j + 1)

\* _extract_dot_from_docket(payload): the id as a string, or None
_extract_dot_from_docket(payload) ==
    IF Falsy(payload) THEN JNull
    ELSE LET hits == { j \in DOMAIN dot_paths : ~Falsy(_dig(payload, dot_paths[j])) }
         IN  IF hits # {} THEN JStr(PyStr(_dig(payload, dot_paths[First(hits)])))
             ELSE dot_fallback(payload, 1)

\* the fields _collect_authority_statuses reads from every record
authority_keys ==
    {k_commonAuthorityStatus, k_contractAuthorityStatus, k_brokerAuthorityStatus,
     k_authorizedForProperty, k_authorizedForPassenger, k_authorizedForHouseholdGoods}

\* the records of an authority payload: a list, a dict wrapping a list under
\* "content", or a single dict
authority_records(payload) ==
    IF payload.t = "list" THEN payload.items
    ELSE IF payload.t = "dict"
         THEN IF _dig(payload, <<Key(k_content)>>).t = "list"
              THEN _dig(payload, <<Key(k_content)>>).items
              ELSE <<Item(<<>>, payload)>>
         ELSE <<>>

\* _collect_authority_statuses(payload): the upper-cased truthy status values
_collect_authority_statuses(payload) ==
    IF Falsy(payload) THEN {}
    ELSE LET records == authority_records(payload)
         IN  { upper(PyStr(_get_case_insensitive(records[i].v, <<Key(k)>>))) :
                 <<i, k>> \in { q \in (DOMAIN records) \X authority_keys :
                     ~Falsy(_get_case_insensitive(records[q[1]].v, <<Key(q[2])>>)) } }

----------------------------------------------------------------------------
(* FmcsaClient of app/fmcsa.py: _get_json attempt by attempt, and verify_mc *)

\* the webKey the client was constructed with
WEBKEY == <<119, 107>>

\* the result verify_mc starts from
VerifyResult(norm_mc) ==
    [ mc |-> norm_mc, dot |-> JNull, eligible |-> FALSE, status |-> "unknown",
      raw |-> [ docketLookup |-> Omitted, carrier |-> Omitted, authority |-> Omitted,
                oos |-> Omitted ] ]

\* what one GET can come to: a response with a status code and a body that is
\* JSON or not, or no response within DEFAULT_TIMEOUT
Response200 == [ kind |-> "response", code |-> 200, json |-> TRUE ]
Undecodable == [ kind |-> "response", code |-> 200, json |-> FALSE ]
HttpError(code) == [ kind |-> "response", code |-> code, json |-> FALSE ]
TimedOut == [ kind |-> "timeout", code |-> 0, json |-> FALSE ]
Outcomes == {Response200, Undecodable, TimedOut,
             HttpError(401), HttpError(404), HttpError(500), HttpError(503)}

\* an exception: whether it is a requests.Timeout, and its str()
Exc(timeout, text) == [ timeout |-> timeout, text |-> text ]
NoExc == Exc(FALSE, <<>>)

\* the URL of an endpoint, from the normalised mc and the resolved dot
endpoint_url(endpoint, norm_mc, dot) ==
    CASE endpoint = "docket" -> BASE \o <<47, 99, 97, 114, 114, 105, 101, 114, 115, 47, 100, 111, 99, 107, 101, 116, 45, 110, 117, 109, 98, 101, 114, 47>> \o norm_mc
      [] endpoint = "carrier" -> BASE \o <<47, 99, 97, 114, 114, 105, 101, 114, 115, 47>> \o PyStr(dot)
      [] endpoint = "authority" -> BASE \o <<47, 99, 97, 114, 114, 105, 101, 114, 115, 47>> \o PyStr(dot) \o <<47, 97, 117, 116, 104, 111, 114, 105, 116, 121>>
      [] endpoint = "oos" -> BASE \o <<47, 99, 97, 114, 114, 105, 101, 114, 115, 47>> \o PyStr(dot) \o <<47, 111, 111, 115>>

\* _get_json: the URL with the webKey appended
full_url(url) ==
    url \o (IF Contains(<<63>>, url) THEN <<38>> ELSE <<63>>) \o <<119, 101, 98, 75, 101, 121, 61>> \o WEBKEY

\* one attempt without the status_code == 401 test: a 401 goes to raise_for_status
attempt_exception_without_401_test(o, full) ==
    IF o.kind = "timeout" THEN Exc(TRUE, <<82, 101, 97, 100, 32, 116, 105, 109, 101, 100, 32, 111, 117, 116, 46>>)
    ELSE IF 400 <= o.code /\ o.code < 500
         THEN Exc(FALSE, DecStr(o.code) \o <<32, 67, 108, 105, 101, 110, 116, 32, 69, 114, 114, 111, 114, 32, 102, 111, 114, 32, 117, 114, 108, 58, 32>> \o full)
    ELSE IF 500 <= o.code /\ o.code < 600
         THEN Exc(FALSE, DecStr(o.code) \o <<32, 83, 101, 114, 118, 101, 114, 32, 69, 114, 114, 111, 114, 32, 102, 111, 114, 32, 117, 114, 108, 58, 32>> \o full)
    ELSE IF ~o.json THEN Exc(FALSE, <<69, 120, 112, 101, 99, 116, 105, 110, 103, 32, 118, 97, 108, 117, 101, 58, 32, 108, 105, 110, 101, 32, 49, 32, 99, 111, 108, 117, 109, 110, 32, 49, 32, 40, 99, 104, 97, 114, 32, 48, 41>>)
    ELSE NoExc

\* the exception one attempt raises: requests.Timeout, the RuntimeError for 401,
\* the HTTPError of raise_for_status (its text names the status and the URL; the
\* reason phrase, which holds no digit, is left out) or the decode error of r.json()
attempt_exception(o, full) ==
    IF o.kind = "timeout" THEN Exc(TRUE, <<82, 101, 97, 100, 32, 116, 105, 109, 101, 100, 32, 111, 117, 116, 46>>)
    ELSE IF o.code = 401 THEN Exc(FALSE, <<70, 77, 67, 83, 65, 32, 52, 48, 49, 32, 85, 110, 97, 117, 116, 104, 111, 114, 105, 122, 101, 100, 32, 40, 99, 104, 101, 99, 107, 32, 119, 101, 98, 75, 101, 121, 41>>)
    ELSE IF 400 <= o.code /\ o.code < 500
         THEN Exc(FALSE, DecStr(o.code) \o <<32, 67, 108, 105, 101, 110, 116, 32, 69, 114, 114, 111, 114, 32, 102, 111, 114, 32, 117, 114, 108, 58, 32>> \o full)
    ELSE IF 500 <= o.code /\ o.code < 600
         THEN Exc(FALSE, DecStr(o.code) \o <<32, 83, 101, 114, 118, 101, 114, 32, 69, 114, 114, 111, 114, 32, 102, 111, 114, 32, 117, 114, 108, 58, 32>> \o full)
    ELSE IF ~o.json THEN Exc(FALSE, <<69, 120, 112, 101, 99, 116, 105, 110, 103, 32, 118, 97, 108, 117, 101, 58, 32, 108, 105, 110, 101, 32, 49, 32, 99, 111, 108, 117, 109, 110, 32, 49, 32, 40, 99, 104, 97, 114, 32, 48, 41>>)
    ELSE NoExc

\* _is_retryable(exc)
_is_retryable(exc) ==
    \/ exc.timeout
    \/ Contains(<<53, 48, 50>>, exc.text)
    \/ Contains(<<53, 48, 51>>, exc.text)
    \/ Contains(<<53, 48, 52>>, exc.text)

\* _get_json would try once more after the attempt with this index even on the last one
may_retry_once_more(attempt, e) == attempt <= RETRIES /\ _is_retryable(e)

\* _get_json: whether the loop goes on after the attempt with this index raised e
may_retry(attempt, e) == attempt < RETRIES /\ _is_retryable(e)

\* no _get_json call made yet
NoCall == [ endpoint |-> "none", tries |-> <<>>, state |-> "none", exc |-> NoExc ]

\* _get_json: the call after one more attempt with outcome o; c is the call so
\* far (a call that is not running has ended, the attempt starts a new one)
_get_json(c, endpoint, url, o) ==
    LET attempt == IF c.state = "running" THEN Len(c.tries) ELSE 0
        tries == (IF c.state = "running" THEN c.tries ELSE <<>>) \o <<o>>
        e == attempt_exception(o, full_url(url))
    IN  IF e = NoExc
        THEN [ endpoint |-> endpoint, tries |-> tries, state |-> "returned", exc |-> NoExc ]
        ELSE IF may_retry(attempt, e)
        THEN [ endpoint |-> endpoint, tries |-> tries, state |-> "running", exc |-> e ]
        ELSE [ endpoint |-> endpoint, tries |-> tries, state |-> "raised", exc |-> e ]

\* verify_mc after the docket lookup returned res, going on without a dot as well
docket_step_going_on(o, res) ==
    LET dot == _extract_dot_from_docket(res)
        o1 == [o EXCEPT !.raw.docketLookup = Val(res)]
    IN  [ out |-> [o1 EXCEPT !.dot = dot], pc |-> "carrier" ]

\* verify_mc keeping the docket payload only when it resolved a dot
docket_step_dropping_unresolved(o, res) ==
    LET dot == _extract_dot_from_docket(res)
        o1 == [o EXCEPT !.raw.docketLookup = Val(res)]
    IN  IF Falsy(dot)
        THEN [ out |-> [o EXCEPT !.status = "not_found"], pc |-> "returned" ]
        ELSE [ out |-> [o1 EXCEPT !.dot = dot], pc |-> "carrier" ]

\* verify_mc after the docket lookup returned res: the result so far and where
\* verify_mc goes next
docket_step(o, res) ==
    LET dot == _extract_dot_from_docket(res)
        o1 == [o EXCEPT !.raw.docketLookup = Val(res)]
    IN  IF Falsy(dot)
        THEN [ out |-> [o1 EXCEPT !.status = "not_found"], pc |-> "returned" ]
        ELSE [ out |-> [o1 EXCEPT !.dot = dot], pc |-> "carrier" ]

\* the flags verify_mc reads from the carrier record
allow_of(core) ==
    PyOr(_get_case_insensitive(core, <<Key(k_carrier), Key(k_allowToOperate)>>),
         _get_case_insensitive(core, <<Key(k_allowToOperate)>>))
oos_of(core) ==
    PyOr(_get_case_insensitive(core, <<Key(k_carrier), Key(k_outOfService)>>),
         _get_case_insensitive(core, <<Key(k_outOfService)>>))

s_Y == <<89>>
s_ACTIVE == <<65, 67, 84, 73, 86, 69>>
s_AUTHORIZED == <<65, 85, 84, 72, 79, 82, 73, 90, 69, 68>>

\* the verdict without the authority check
eligibility_without_authority(allow, oos, statuses) ==
    LET allow_ok == upper(PyStr(allow)) = s_Y
        oos_ok == upper(PyStr(oos)) # s_Y
    IN  IF allow_ok /\ oos_ok
        THEN [ eligible |-> TRUE, status |-> "authorized" ]
        ELSE IF upper(PyStr(oos)) = s_Y
        THEN [ eligible |-> FALSE, status |-> "out_of_service" ]
        ELSE [ eligible |-> FALSE, status |-> "not_authorized" ]

\* verify_mc, "Evaluate eligibility": the verdict from the flags and the statuses
eligibility(allow, oos, statuses) ==
    LET allow_ok == upper(PyStr(allow)) = s_Y
        oos_ok == upper(PyStr(oos)) # s_Y
        has_active == \E s \in statuses : s \in {s_ACTIVE, s_AUTHORIZED}
    IN  IF allow_ok /\ oos_ok /\ has_active
        THEN [ eligible |-> TRUE, status |-> "authorized" ]
        ELSE IF upper(PyStr(oos)) = s_Y
        THEN [ eligible |-> FALSE, status |-> "out_of_service" ]
        ELSE [ eligible |-> FALSE, status |-> "not_authorized" ]

\* the end of verify_mc with the out-of-service flag also read from the
\* out-of-service record when it was fetched
evaluate_with_oos_detail(o) ==
    LET core == Get(o.raw.carrier)
        detail == IF IsVal(o.raw.oos) THEN oos_of(Get(o.raw.oos)) ELSE JNull
        v == eligibility(allow_of(core), PyOr(detail, oos_of(core)),
                         _collect_authority_statuses(Get(o.raw.authority)))
    IN  [o EXCEPT !.eligible = v.eligible, !.status = v.status]

\* the end of verify_mc: the result with the verdict filled in
evaluate(o) ==
    LET core == Get(o.raw.carrier)
        v == eligibility(allow_of(core), oos_of(core),
                         _collect_authority_statuses(Get(o.raw.authority)))
    IN  [o EXCEPT !.eligible = v.eligible, !.status = v.status]

----------------------------------------------------------------------------
(* The registry the client talks to *)

\* carrier strings given to verify_mc: "MC-76667", "MC 5020", "abc"
s_MC76667 == <<77, 67, 45, 55, 54, 54, 54, 55>>
s_MC5020 == <<77, 67, 32, 53, 48, 50, 48>>
s_abc == <<97, 98, 99>>
Mcs == {s_MC76667, s_MC5020, s_abc}

\* what the registry knows about the carrier: its DOT number (0: none), the two
\* flags of its carrier record and one authority status, each possibly absent
F_Y == JStr(<<89>>)
F_y == JStr(<<121>>)
F_N == JStr(<<78>>)
Dots == {0, 33}
FlagPairs == { <<F_Y, F_N>>, <<F_y, JNull>>, <<F_Y, F_Y>>, <<F_N, F_N>>,
               <<JNull, F_y>>, <<JNull, JNull>> }
NoAuthority == Item(k_commonAuthorityStatus, JNull)
Authorities == { Item(k_commonAuthorityStatus, JStr(<<65, 99, 116, 105, 118, 101>>)),
                 Item(k_contractAuthorityStatus, JStr(<<65, 85, 84, 72, 79, 82, 73, 90, 69, 68>>)),
                 Item(k_commonAuthorityStatus, JStr(<<73, 78, 65, 67, 84, 73, 86, 69>>)),
                 NoAuthority }

\* the shapes a payload comes in: the record itself, a list holding it, a dict
\* holding that list under "content", or (carrier record) the flags at top level
\* under upper-case names
Shapes(docket, carrier, authority) ==
    [ docket |-> docket, carrier |-> carrier, authority |-> authority ]
AllObjects == Shapes("object", "object", "object")
ShapeChoices ==
    { AllObjects,
      Shapes("list", "object", "object"), Shapes("content", "object", "object"),
      Shapes("object", "list", "object"), Shapes("object", "content", "object"),
      Shapes("object", "flat", "object"),
      Shapes("object", "object", "list"), Shapes("object", "object", "content") }

Registry(dot, flags, authority, shape) ==
    [ dot |-> dot, allow |-> flags[1], oos |-> flags[2], authority |-> authority,
      shape |-> shape ]
\* an unknown carrier in every docket shape, every known carrier answered in
\* plain objects, and two eligible or out-of-service carriers in every shape
Registries ==
    { Registry(0, <<JNull, JNull>>, NoAuthority, s) :
        s \in { c \in ShapeChoices : c.carrier = "object" /\ c.authority = "object" } }
    \cup { Registry(d, f, a, AllObjects) :
              d \in Dots \ {0}, f \in FlagPairs, a \in Authorities }
    \cup { Registry(d, f, a, s) :
              d \in Dots \ {0}, f \in {<<F_Y, F_N>>, <<F_Y, F_Y>>},
              a \in {Item(k_commonAuthorityStatus, JStr(<<65, 99, 116, 105, 118, 101>>))},
              s \in ShapeChoices }
NoRegistry == Registry(0, <<JNull, JNull>>, NoAuthority, AllObjects)

\* a record in one of the shapes
Shaped(rec, shape) ==
    CASE shape = "list" -> JList(<<rec>>)
      [] shape = "content" -> JDict(<<Item(k_content, JList(<<rec>>))>>)
      [] OTHER -> rec

\* the items of a dict, leaving out the absent (null) ones
Present(items) == SelectSeq(items, LAMBDA it : it.v # JNull)

\* the docket lookup's payload: nothing for a carrier the registry does not know
docket_payload(reg) ==
    IF reg.dot = 0
    THEN CASE reg.shape.docket = "list" -> JList(<<>>)
           [] reg.shape.docket = "content" -> JDict(<<Item(k_content, JList(<<>>))>>)
           [] OTHER -> JDict(<<>>)
    ELSE Shaped(JDict(<<Item(k_carrier, JDict(<<Item(k_dotNumber, JInt(reg.dot))>>))>>),
                reg.shape.docket)

\* the carrier record's payload
carrier_payload(reg) ==
    IF reg.shape.carrier = "flat"
    THEN JDict(Present(<<Item(upper(k_allowToOperate), reg.allow),
                         Item(upper(k_outOfService), reg.oos)>>))
    ELSE Shaped(JDict(<<Item(k_carrier,
                            JDict(Present(<<Item(k_allowToOperate, reg.allow),
                                            Item(k_outOfService, reg.oos)>>)))>>),
                reg.shape.carrier)

\* the authority record's payload
authority_payload(reg) == Shaped(JDict(Present(<<reg.authority>>)), reg.shape.authority)

\* what the out-of-service lookup may answer
OosPayloads ==
    { JNull, JDict(<<Item(k_outOfService, F_Y)>>),
      JList(<<JDict(<<Item(k_carrier, JDict(<<Item(k_outOfService, F_N)>>))>>)>>) }

\* verify_mc is not running
RegistryIdle ==
    /\ registry = NoRegistry
    /\ mcIn = <<>>
    /\ pc = "idle"
    /\ call = NoCall
    /\ fetched = {}
    /\ out = VerifyResult(<<>>)

----------------------------------------------------------------------------
(* Inputs *)

ListedRates == {-100, 10, 1010, 2000}
MilesFields == {Omitted, Null}
EquipFields == {Omitted, Val(s_Reefer)}

\* our_offer and carrier_offer are drawn around the listed rate, or negative
Deltas == {-500, 0, 10, 25, 50, 75, 200, 300, 325, 1000}
Amounts(listed) == {listed + d : d \in Deltas} \cup {-1}
Rounds == 0 .. MaxRound
BodySids == {NoSid, <<"given", 1>>}
HeaderSids == {NoSid, <<"given", 2>>}
Keys == {API_KEY, "wrong"}

\* a second request for the same load draws from fewer values
RecallDeltas == {0, 1000}
RecallRounds == {1, 3}

----------------------------------------------------------------------------
(* The /evaluate_offer handler *)

\* POST /evaluate_offer: the body fields, the x-api-key and x-session-id headers;
\* start and chained record how the caller built the request
Handle(listed, our, ask, rnd, body_sid, x_api_key, x_session_id, start, chained) ==
    LET p == EvaluateIn(listed, our, ask, load.miles, load.equipment_type, rnd, body_sid)
        fresh == <<"uuid", uuids + 1>>
        generated == p.session_id = NoSid /\ x_session_id = NoSid
        sid == IF p.session_id # NoSid THEN p.session_id
               ELSE IF x_session_id # NoSid THEN x_session_id
               ELSE fresh
        started == IF generated THEN start_session(sessions, Null, sid) ELSE sessions
        r == evaluate_offer(p, sid)
    IN  /\ req' = [ p |-> p, x_api_key |-> x_api_key, x_session_id |-> x_session_id ]
        /\ load' = load
        /\ UNCHANGED <<capVars, vreq, vresp, regVars>>
        /\ IF x_api_key # API_KEY
           THEN /\ resp' = Response(401)
                /\ fromStart' = FALSE
                /\ prevNext' = <<>>
                /\ UNCHANGED <<cap0, sessions, events, uuids>>
           ELSE /\ resp' = r
                /\ cap0' = IF cap0 = <<>> THEN <<r.cap_rate>> ELSE cap0
                /\ fromStart' = start
                /\ prevNext' = IF chained THEN <<resp.next_offer>> ELSE <<>>
                /\ uuids' = IF generated THEN uuids + 1 ELSE uuids
                /\ sessions' = log_event_sessions(started, sid)
                /\ events' = log_event_events(events, sid, "negotiation_round")

\* the first request about the load: any offer, ask, round, session id and key
Call ==
    /\ resp.status = 0
    /\ \E our \in Amounts(load.listed_rate), ask \in Amounts(load.listed_rate), rnd \in Rounds,
          b \in BodySids, h \in HeaderSids, k \in Keys :
            Handle(load.listed_rate, our, ask, rnd, b, k, h,
                   rnd = 1 /\ our = load.listed_rate, FALSE)
    /\ UNCHANGED <<memo, served>>

\* a second, unrelated request about the same load
Recall ==
    /\ resp.status = 200
    /\ prevNext = <<>>
    /\ Cardinality(events) < 2
    /\ \E d1 \in RecallDeltas, d2 \in RecallDeltas, rnd \in RecallRounds, b \in BodySids :
            Handle(load.listed_rate, load.listed_rate + d1, load.listed_rate + d2, rnd, b,
                   API_KEY, NoSid, FALSE, FALSE)
    /\ UNCHANGED <<memo, served>>

\* the caller threads next_offer, round_next and session_id into the next request
NextRound ==
    /\ resp.status = 200
    /\ resp.decision = "counter"
    /\ resp.round_next <= MaxRound
    /\ \E ask \in Amounts(load.listed_rate) :
            Handle(load.listed_rate, resp.next_offer, ask, resp.round_next, resp.session_id,
                   API_KEY, NoSid, fromStart, TRUE)
    /\ UNCHANGED <<memo, served>>

\* no /evaluate_offer request answered yet, no /verify_carrier request made yet
NoMemo == <<>>
NoVerifyRequest ==
    [ mc |-> <<>>, session_id |-> NoSid, x_api_key |-> "", x_session_id |-> NoSid,
      upstream |-> "unset",
      u |-> [ dot |-> Omitted, eligible |-> Omitted, status |-> Omitted, risk_score |-> Omitted,
              carrier_tier |-> Omitted, business_recommendation |-> Omitted ] ]
VerifyResponse(code) ==
    [ code |-> code, mc |-> <<>>, dot |-> Null, eligible |-> FALSE, status |-> Null,
      risk_score |-> Null, carrier_tier |-> Null, business_recommendation |-> Null,
      session_id |-> NoSid ]

Init ==
    /\ memo = NoMemo
    /\ vreq = NoVerifyRequest
    /\ vresp = VerifyResponse(0)
    /\ served = 0
    /\ RegistryIdle
    /\ load \in [ listed_rate : ListedRates, miles : MilesFields, equipment_type : EquipFields ]
    /\ req = [ p |-> EvaluateIn(0, 0, 0, Null, Null, 0, NoSid), x_api_key |-> "",
               x_session_id |-> NoSid ]
    /\ resp = Response(0)
    /\ cap0 = <<>>
    /\ fromStart = FALSE
    /\ prevNext = <<>>
    /\ sessions = {}
    /\ events = {}
    /\ uuids = 0
    /\ capIn = [ listed_rate |-> 0, miles |-> Null, equipment_type |-> Null ]
    /\ capOut = <<>>

Next == Call \/ Recall \/ NextRound

Spec == Init /\ [][Next]_vars

----------------------------------------------------------------------------
(* The /verify_carrier handler of app/main.py *)

\* carrier strings callers send: "MC-123", "76667" ("abc" is defined above)
s_MC123 == <<77, 67, 45, 49, 50, 51>>
s_76667 == <<55, 54, 54, 54, 55>>

\* the built-in list of ineligible carriers: {"000111", "999999", "123"}
ineligible == {<<48, 48, 48, 49, 49, 49>>, <<57, 57, 57, 57, 57, 57>>, <<49, 50, 51>>}

\* "".join([c for c in s if c.isdigit()])
digits(s) == SelectSeq(s, IsDigit)

\* dict.get(key, default): the default only replaces a missing key
DictGet(field, default) == IF field = Omitted THEN default ELSE field

\* bool(x) of an optional JSON boolean
PyBool(field) == IsVal(field) /\ Get(field)

\* the result built from the upstream's JSON answer u
upstream_result(mc, u, sid) ==
    [ code |-> 200, mc |-> mc,
      dot |-> DictGet(u.dot, Null),
      eligible |-> PyBool(DictGet(u.eligible, Val(FALSE))),
      status |-> DictGet(u.status, Val("unknown")),
      risk_score |-> DictGet(u.risk_score, Val(50)),
      carrier_tier |-> DictGet(u.carrier_tier, Val("standard")),
      business_recommendation
          |-> DictGet(u.business_recommendation, Val("manual_review_required")),
      session_id |-> sid ]

\* the result built without the upstream, from the built-in list
fallback_result(mc, sid) ==
    LET eligible == mc \notin ineligible
    IN  [ code |-> 200, mc |-> mc, dot |-> Null, eligible |-> eligible,
          status |-> Val(IF eligible THEN "authorized" ELSE "not_authorized"),
          risk_score |-> Val(IF eligible THEN 30 ELSE 80),
          carrier_tier |-> Val(IF eligible THEN "silver" ELSE "bronze"),
          business_recommendation
              |-> Val(IF eligible THEN "ok_to_proceed" ELSE "manual_review_required"),
          session_id |-> sid ]

\* POST /verify_carrier: body (mc, session_id), headers, and what the configured
\* upstream does: "unset" (no CARRIER_UPSTREAM_URL), "raises" (unreachable, error
\* status or undecodable body) or "ok" with the JSON object u
VerifyCarrier(mc_raw, body_sid, x_api_key, x_session_id, upstream, u) ==
    LET fresh == <<"uuid", uuids + 1>>
        generated == body_sid = NoSid /\ x_session_id = NoSid
        sid == IF body_sid # NoSid THEN body_sid
               ELSE IF x_session_id # NoSid THEN x_session_id
               ELSE fresh
        started == IF generated THEN start_session(sessions, Val("inbound_voice"), sid)
                   ELSE sessions
        mc == digits(mc_raw)
        result == IF upstream = "ok" THEN upstream_result(mc, u, sid)
                  ELSE fallback_result(mc, sid)
    IN  /\ vreq' = [ mc |-> mc_raw, session_id |-> body_sid, x_api_key |-> x_api_key,
                     x_session_id |-> x_session_id, upstream |-> upstream, u |-> u ]
        /\ UNCHANGED <<load, req, resp, cap0, fromStart, prevNext, capVars, memo, regVars>>
        /\ served' = served + 1
        /\ IF x_api_key # API_KEY
           THEN /\ vresp' = VerifyResponse(401)
                /\ UNCHANGED <<sessions, events, uuids>>
           ELSE IF mc = <<>>
           THEN /\ vresp' = VerifyResponse(400)
                /\ sessions' = started
                /\ uuids' = IF generated THEN uuids + 1 ELSE uuids
                /\ UNCHANGED events
           ELSE /\ vresp' = result
                /\ uuids' = IF generated THEN uuids + 1 ELSE uuids
                /\ sessions' = log_event_sessions(started, sid)
                /\ events' = log_event_events(events, sid, "verify_result")

----------------------------------------------------------------------------
(* The API as a whole: /evaluate_offer, /verify_carrier and the telemetry
   endpoints /log/session/start, /log/session/end and /log/events, called in
   any order by any callers *)

MaxRequests == 4

ApiLoads == { [ listed_rate |-> 1010, miles |-> Omitted, equipment_type |-> Omitted ],
              [ listed_rate |-> 2000, miles |-> Null, equipment_type |-> Val(s_Reefer) ] }
ApiAsks == {200, 1000}
ApiRounds == {1, 3}
ApiCarriers == {s_MC123, s_76667}
ApiUpstreams == {"unset", "raises"}
NoUpstreamAnswer == NoVerifyRequest.u
Summaries == {Null, Val(Summary(1, Val("booked")))}
KnownSids == {<<"given", 1>>, <<"uuid", 1>>}

\* what an answered /evaluate_offer request was asked and what it decided
Decision(q, r) ==
    [ listed_rate |-> q.p.listed_rate, our_offer |-> q.p.our_offer,
      carrier_offer |-> q.p.carrier_offer, round |-> q.p.round, miles |-> q.p.miles,
      equipment_type |-> q.p.equipment_type,
      decision |-> r.decision, next_offer |-> r.next_offer, cap_rate |-> r.cap_rate,
      round_next |-> r.round_next, session_id |-> r.session_id,
      verified |-> vresp.code, events |-> Cardinality(events) ]

\* POST /evaluate_offer by any caller
ApiEvaluate ==
    /\ served < MaxRequests
    /\ \E d \in ApiAsks, rnd \in ApiRounds, b \in BodySids :
            Handle(load.listed_rate, load.listed_rate, load.listed_rate + d, rnd, b,
                   API_KEY, NoSid, FALSE, FALSE)
    /\ memo' = IF memo = NoMemo THEN <<Decision(req', resp')>> ELSE memo
    /\ served' = served + 1

\* POST /verify_carrier by any caller
ApiVerifyCarrier ==
    /\ served < MaxRequests
    /\ \E mc \in ApiCarriers, b \in BodySids, up \in ApiUpstreams :
            VerifyCarrier(mc, b, API_KEY, NoSid, up, NoUpstreamAnswer)

\* POST /log/session/start with an optional session_id (session_start_api)
ApiSessionStart ==
    /\ served < MaxRequests
    /\ \E b \in BodySids :
        LET sid == IF b # NoSid THEN b ELSE <<"uuid", uuids + 1>>
        IN  /\ sessions' = start_session(sessions, Null, sid)
            /\ uuids' = IF b = NoSid THEN uuids + 1 ELSE uuids
    /\ served' = served + 1
    /\ UNCHANGED <<load, req, resp, cap0, fromStart, prevNext, events, capVars,
                   memo, vreq, vresp, regVars>>

\* POST /log/session/end (session_end_api)
ApiSessionEnd ==
    /\ served < MaxRequests
    /\ \E sid \in KnownSids, summary \in Summaries :
        /\ sessions' = end_session_sessions(sessions, sid, summary)
        /\ events' = end_session_events(events, sid, summary)
    /\ served' = served + 1
    /\ UNCHANGED <<load, req, resp, cap0, fromStart, prevNext, uuids, capVars,
                   memo, vreq, vresp, regVars>>

\* POST /log/events with the default event_type (events_api)
ApiLogEvent ==
    /\ served < MaxRequests
    /\ \E sid \in KnownSids :
        /\ sessions' = log_event_sessions(sessions, sid)
        /\ events' = log_event_events(events, sid, "event")
    /\ served' = served + 1
    /\ UNCHANGED <<load, req, resp, cap0, fromStart, prevNext, uuids, capVars,
                   memo, vreq, vresp, regVars>>

InitApi ==
    /\ memo = NoMemo
    /\ vreq = NoVerifyRequest
    /\ vresp = VerifyResponse(0)
    /\ served = 0
    /\ RegistryIdle
    /\ load \in ApiLoads
    /\ req = [ p |-> EvaluateIn(0, 0, 0, Null, Null, 0, NoSid), x_api_key |-> "",
               x_session_id |-> NoSid ]
    /\ resp = Response(0)
    /\ cap0 = <<>>
    /\ fromStart = FALSE
    /\ prevNext = <<>>
    /\ sessions = {}
    /\ events = {}
    /\ uuids = 0
    /\ capIn = [ listed_rate |-> 0, miles |-> Null, equipment_type |-> Null ]
    /\ capOut = <<>>

NextApi == ApiEvaluate \/ ApiVerifyCarrier \/ ApiSessionStart \/ ApiSessionEnd \/ ApiLogEvent

SpecApi == InitApi /\ [][NextApi]_vars

----------------------------------------------------------------------------
(* /verify_carrier on its own, over every kind of carrier string and upstream *)

MaxVerifies == 1

\* "123" and "000111" are on the built-in list; "MC-" and "abc" hold no digit
s_123 == <<49, 50, 51>>
s_000111 == <<48, 48, 48, 49, 49, 49>>
s_MC == <<77, 67, 45>>
Carriers == {s_MC123, s_76667, s_123, s_000111, s_abc, s_MC, <<>>}

\* what the upstream answers when it answers
UpstreamAnswers ==
    { NoUpstreamAnswer,
      [ NoUpstreamAnswer EXCEPT !.dot = Val(33), !.eligible = Val(TRUE),
                                !.status = Val("authorized"), !.risk_score = Val(10) ],
      [ NoUpstreamAnswer EXCEPT !.dot = Null, !.eligible = Null, !.status = Null ],
      [ NoUpstreamAnswer EXCEPT !.eligible = Val(FALSE), !.status = Val("out_of_service") ] }

\* the upstream is not configured, fails, or answers
Upstreams ==
    {<<"unset", NoUpstreamAnswer>>, <<"raises", NoUpstreamAnswer>>}
        \cup {<<"ok", u>> : u \in UpstreamAnswers}

CarrierVerify ==
    /\ served < MaxVerifies
    /\ \E mc \in Carriers, b \in BodySids, h \in HeaderSids, k \in Keys, up \in Upstreams :
            VerifyCarrier(mc, b, k, h, up[1], up[2])

NextCarrier == CarrierVerify

SpecCarrier == InitApi /\ [][NextCarrier]_vars

----------------------------------------------------------------------------
(* verify_mc as a process *)

Endpoints == {"docket", "carrier", "authority", "oos"}

\* client.verify_mc(mc) is called
VerifyMc ==
    /\ pc = "idle"
    /\ \E mc \in Mcs :
        /\ mcIn' = mc
        /\ out' = VerifyResult(_digits(mc))
    /\ pc' = "docket"
    /\ UNCHANGED <<registry, call, fetched, negVars, capVars, apiVars>>

\* one attempt of self._get_json(f"{BASE}/carriers/docket-number/{norm_mc}")
FetchDocket ==
    /\ pc = "docket"
    /\ \E o \in Outcomes :
        LET c == _get_json(call, "docket", endpoint_url("docket", out.mc, out.dot), o)
            step == docket_step(out, docket_payload(registry))
        IN  /\ call' = c
            /\ fetched' = fetched \cup {"docket"}
            /\ out' = IF c.state = "returned" THEN step.out ELSE out
            /\ pc' = CASE c.state = "returned" -> step.pc
                       [] c.state = "raised" -> "raised"
                       [] OTHER -> pc
    /\ UNCHANGED <<registry, mcIn, negVars, capVars, apiVars>>

\* one attempt of self._get_json(f"{BASE}/carriers/{dot}")
FetchCarrier ==
    /\ pc = "carrier"
    /\ \E o \in Outcomes :
        LET c == _get_json(call, "carrier", endpoint_url("carrier", out.mc, out.dot), o)
        IN  /\ call' = c
            /\ fetched' = fetched \cup {"carrier"}
            /\ out' = IF c.state = "returned"
                      THEN [out EXCEPT !.raw.carrier = Val(carrier_payload(registry))]
                      ELSE out
            /\ pc' = CASE c.state = "returned" -> "authority"
                       [] c.state = "raised" -> "raised"
                       [] OTHER -> pc
    /\ UNCHANGED <<registry, mcIn, negVars, capVars, apiVars>>

\* one attempt of self._get_json(f"{BASE}/carriers/{dot}/authority")
FetchAuthority ==
    /\ pc = "authority"
    /\ \E o \in Outcomes :
        LET c == _get_json(call, "authority", endpoint_url("authority", out.mc, out.dot), o)
        IN  /\ call' = c
            /\ fetched' = fetched \cup {"authority"}
            /\ out' = IF c.state = "returned"
                      THEN [out EXCEPT !.raw.authority = Val(authority_payload(registry))]
                      ELSE out
            /\ pc' = CASE c.state = "returned" -> "oos"
                       [] c.state = "raised" -> "raised"
                       [] OTHER -> pc
    /\ UNCHANGED <<registry, mcIn, negVars, capVars, apiVars>>

\* one attempt of self._get_json(f"{BASE}/carriers/{dot}/oos") inside the try;
\* when the call has ended either way verify_mc evaluates eligibility and returns
FetchOos ==
    /\ pc = "oos"
    /\ \E o \in Outcomes :
      \E oos_detail \in (IF o = Response200 THEN OosPayloads ELSE {JNull}) :
        LET c == _get_json(call, "oos", endpoint_url("oos", out.mc, out.dot), o)
        IN  /\ call' = c
            /\ fetched' = fetched \cup {"oos"}
            /\ out' = CASE c.state = "returned" ->
                               evaluate([out EXCEPT !.raw.oos = Val(oos_detail)])
                        [] c.state = "raised" -> evaluate(out)
                        [] OTHER -> out
            /\ pc' = IF c.state = "running" THEN pc ELSE "returned"
    /\ UNCHANGED <<registry, mcIn, negVars, capVars, apiVars>>

\* nothing has been asked of the API
QuietApi ==
    /\ memo = NoMemo
    /\ vreq = NoVerifyRequest
    /\ vresp = VerifyResponse(0)
    /\ served = 0
    /\ load = [ listed_rate |-> 0, miles |-> Null, equipment_type |-> Null ]
    /\ req = [ p |-> EvaluateIn(0, 0, 0, Null, Null, 0, NoSid), x_api_key |-> "",
               x_session_id |-> NoSid ]
    /\ resp = Response(0)
    /\ cap0 = <<>>
    /\ fromStart = FALSE
    /\ prevNext = <<>>
    /\ sessions = {}
    /\ events = {}
    /\ uuids = 0
    /\ capIn = [ listed_rate |-> 0, miles |-> Null, equipment_type |-> Null ]
    /\ capOut = <<>>

\* the client is constructed (webKey set) and the registry holds some carrier
InitRegistry ==
    /\ QuietApi
    /\ registry \in Registries
    /\ mcIn = <<>>
    /\ pc = "idle"
    /\ call = NoCall
    /\ fetched = {}
    /\ out = VerifyResult(<<>>)

NextRegistry == VerifyMc \/ FetchDocket \/ FetchCarrier \/ FetchAuthority \/ FetchOos

SpecRegistry == InitRegistry /\ [][NextRegistry]_vars

----------------------------------------------------------------------------
(* One _get_json call on its own, for every endpoint and several ids *)

\* the digits in the URL: a docket number and a DOT number, with and without
\* "502" or "504" in them
UrlMcs == {<<55, 54, 54, 54, 55>>, <<53, 48, 50, 48>>}
UrlDots == {JStr(<<51, 51>>), JStr(<<53, 48, 52, 49>>)}

\* one attempt of the call
GetJsonAttempt ==
    /\ pc = "get_json"
    /\ \E o \in Outcomes :
        LET c == _get_json(call, call.endpoint,
                           endpoint_url(call.endpoint, out.mc, out.dot), o)
        IN  /\ call' = c
            /\ fetched' = fetched \cup {call.endpoint}
            /\ pc' = IF c.state = "running" THEN pc ELSE c.state
    /\ UNCHANGED <<registry, mcIn, out, negVars, capVars, apiVars>>

\* _get_json is about to be called with the URL of one of the endpoints
InitGetJson ==
    /\ QuietApi
    /\ registry = NoRegistry
    /\ mcIn = <<>>
    /\ pc = "get_json"
    /\ call \in { [NoCall EXCEPT !.endpoint = e] : e \in Endpoints }
    /\ fetched = {}
    /\ out \in { [VerifyResult(m) EXCEPT !.dot = d] : m \in UrlMcs, d \in UrlDots }

NextGetJson == GetJsonAttempt

\* every GET ends within DEFAULT_TIMEOUT and every sleep between two attempts
\* is finite, so the loop of _get_json keeps taking its next step
SpecGetJson == InitGetJson /\ [][NextGetJson]_vars /\ WF_vars(NextGetJson)

----------------------------------------------------------------------------
(* compute_cap called directly, over a dense range of listed rates *)

CapMiles == {Null, Val(0), Val(299), Val(300), Val(1200)}
CapEquips == {Null, Val(s_empty), Val(s_DryVan), Val(s_reefer), Val(s_Reefer),
              Val(s_flatbed), Val(s_FLATBED)}

ComputeCap ==
    /\ capOut = <<>>
    /\ capOut' = <<compute_cap(capIn.listed_rate, capIn.miles, capIn.equipment_type)>>
    /\ UNCHANGED <<capIn, negVars, apiVars, regVars>>

InitCap ==
    /\ memo = NoMemo
    /\ vreq = NoVerifyRequest
    /\ vresp = VerifyResponse(0)
    /\ served = 0
    /\ RegistryIdle
    /\ capIn \in [ listed_rate : (-MaxBelowZero) .. MaxListed, miles : CapMiles,
                    equipment_type : CapEquips ]
    /\ capOut = <<>>
    /\ load = [ listed_rate |-> 0, miles |-> Null, equipment_type |-> Null ]
    /\ req = [ p |-> EvaluateIn(0, 0, 0, Null, Null, 0, NoSid), x_api_key |-> "",
               x_session_id |-> NoSid ]
    /\ resp = Response(0)
    /\ cap0 = <<>>
    /\ fromStart = FALSE
    /\ prevNext = <<>>
    /\ sessions = {}
    /\ events = {}
    /\ uuids = 0

NextCap == ComputeCap

SpecCap == InitCap /\ [][NextCap]_vars

----------------------------------------------------------------------------
(* Properties of the negotiation engine *)

\* the last request was answered with a decision
Answered == resp.status = 200
Accepted == Answered /\ resp.decision = "accept"
Countered == Answered /\ resp.decision = "counter"
Abs(x) == IF x >= 0 THEN x ELSE -x

\* the request carries non-negative rates and a positive round
ValidRequest ==
    /\ req.p.listed_rate >= 0
    /\ req.p.our_offer >= 0
    /\ req.p.carrier_offer >= 0
    /\ req.p.round >= 1

\* C1: every decision's next_offer is at most its cap_rate (stated for the
\* requests with valid numbers, where it already fails)
C1_NextOfferWithinCap ==
    (Answered /\ ValidRequest) => resp.next_offer <= resp.cap_rate

\* C2, as claimed: in a session threaded from round 1 each next_offer is at least
\* the next_offer of the round before, the accepting round included (stated for
\* the requests with valid numbers)
C2_NextOfferNonDecreasing ==
    (fromStart /\ Answered /\ ValidRequest /\ prevNext # <<>>)
    => resp.next_offer >= prevNext[1]

\* C2, amended: in a session threaded from round 1 each next_offer is at least the
\* next_offer of the round before, except in an accepting round whose ask is below it
C2_NextOfferNonDecreasingUnlessAcceptedBelow ==
    (/\ fromStart
     /\ Answered
     /\ prevNext # <<>>
     /\ ~(resp.decision = "accept" /\ req.p.carrier_offer < prevNext[1]))
    => resp.next_offer >= prevNext[1]

C2_Witness ==
    /\ fromStart
    /\ Countered
    /\ prevNext # <<>>
    /\ req.p.round = 3
    /\ resp.next_offer > prevNext[1]

\* C3: an ask at or below our last offer is accepted at the ask (stated for the
\* requests with valid numbers)
C3_AcceptAtOrBelowOurOffer ==
    (Answered /\ ValidRequest /\ req.p.carrier_offer <= req.p.our_offer)
    => (resp.decision = "accept" /\ resp.next_offer = req.p.carrier_offer)

\* C4, as claimed: from round 3 on an ask within the cap is accepted at the ask
\* (stated for the requests with valid numbers)
C4_LateRoundAcceptsWithinCap ==
    (Answered /\ ValidRequest /\ req.p.round >= 3 /\ req.p.carrier_offer <= resp.cap_rate)
    => (resp.decision = "accept" /\ resp.next_offer = req.p.carrier_offer)

\* C4, amended: from round 3 on an ask within the cap is accepted, at the ask,
\* exactly when it is at most 50 above our last offer
C4_LateRoundAcceptsCloseAsk ==
    (Answered /\ req.p.round >= 3 /\ req.p.carrier_offer <= resp.cap_rate)
    => /\ resp.decision = "accept" <=> req.p.carrier_offer - req.p.our_offer <= 50
       /\ resp.decision = "accept" => resp.next_offer = req.p.carrier_offer

C4_Witness ==
    /\ Accepted
    /\ req.p.round >= 3
    /\ req.p.carrier_offer = req.p.our_offer + 50
    /\ resp.next_offer = req.p.carrier_offer

\* C5, as claimed: in every round an ask within the cap and at most 50 above our
\* last offer is accepted at the ask (stated for the requests with valid numbers)
C5_CloseAskAcceptedEveryRound ==
    (/\ Answered
     /\ ValidRequest
     /\ req.p.carrier_offer <= resp.cap_rate
     /\ req.p.carrier_offer - req.p.our_offer <= 50)
    => (resp.decision = "accept" /\ resp.next_offer = req.p.carrier_offer)

\* C5, amended: an ask within the cap and at most 50 above our last offer is
\* accepted, at the ask, exactly when the round is 3 or later or the ask is at or
\* below our last offer
C5_CloseAskAcceptedLateOrBelow ==
    (/\ Answered
     /\ req.p.carrier_offer <= resp.cap_rate
     /\ req.p.carrier_offer - req.p.our_offer <= 50)
    => /\ resp.decision = "accept"
            <=> (req.p.round >= 3 \/ req.p.carrier_offer <= req.p.our_offer)
       /\ resp.decision = "accept" => resp.next_offer = req.p.carrier_offer

C5_Witness ==
    /\ Countered
    /\ req.p.round = 2
    /\ req.p.carrier_offer <= resp.cap_rate
    /\ req.p.carrier_offer = req.p.our_offer + 25

\* C6: every decision about a load carries the cap of the first decision about
\* it, whatever the ask, our offer, the round and the session id of the requests
C6_CapDependsOnLoadOnly ==
    (Answered /\ cap0 # <<>>) => resp.cap_rate = cap0[1]

C6_Witness ==
    /\ Answered
    /\ Cardinality(sessions) = 2
    /\ req.p.round = 3
    /\ req.p.carrier_offer > resp.cap_rate
    /\ resp.cap_rate = cap0[1]

\* the equipment type is "reefer" or "flatbed" in some letter case
C7_IsSpecialEquipment(e) ==
    /\ IsVal(e)
    /\ \E t \in {s_reefer, s_flatbed} :
          /\ Len(Get(e)) = Len(t)
          /\ \A i \in 1 .. Len(t) : Get(e)[i] = t[i] \/ Get(e)[i] = t[i] - 32

\* listed rate + allowance + premiums, before rounding
C7_Sum(in) ==
    in.listed_rate + Min(325, TruncDiv(in.listed_rate, 4))
        + (IF C7_IsSpecialEquipment(in.equipment_type) THEN 75 ELSE 0)
        + (IF IsVal(in.miles) /\ Get(in.miles) < 300 THEN 50 ELSE 0)

\* C7: compute_cap is a multiple of 25 and no multiple of 25 is nearer to the sum
C7_CapIsNearestMultipleOf25 ==
    capOut # <<>> =>
        /\ capOut[1] % 25 = 0
        /\ 2 * Abs(capOut[1] - C7_Sum(capIn)) <= 25

C7_Witness ==
    /\ capOut = <<1375>>
    /\ capIn = [ listed_rate |-> 1010, miles |-> Val(299), equipment_type |-> Val(s_FLATBED) ]

\* C8: a request without distance and without equipment type gets the cap without
\* premiums (stated for the requests with valid numbers)
C8_NoFactsNoPremium ==
    (/\ Answered
     /\ ValidRequest
     /\ load.miles \in {Omitted, Null}
     /\ load.equipment_type \in {Omitted, Null})
    => resp.cap_rate
         = round_to_25(load.listed_rate + Min(325, TruncDiv(load.listed_rate, 4)), 1)

\* C9: a request with a negative rate or a non-positive round gets no decision
C9_InvalidInputRejected ==
    (/\ resp.status # 0
     /\ \/ req.p.listed_rate < 0
        \/ req.p.our_offer < 0
        \/ req.p.carrier_offer < 0
        \/ req.p.round <= 0)
    => resp.decision \notin {"accept", "counter"}

\* C10: every decision hands back round + 1
C10_RoundNextIsRoundPlusOne ==
    Answered => resp.round_next = req.p.round + 1

C10_Witness ==
    /\ Countered
    /\ req.p.round = 3
    /\ resp.round_next = 4

\* what the last answered /evaluate_offer request was asked
SameInputs(m) ==
    /\ req.p.listed_rate = m.listed_rate
    /\ req.p.our_offer = m.our_offer
    /\ req.p.carrier_offer = m.carrier_offer
    /\ req.p.round = m.round
    /\ req.p.miles = m.miles
    /\ req.p.equipment_type = m.equipment_type

\* C11: two /evaluate_offer calls with the same listed rate, offers, round, miles
\* and equipment type get the same decision, next_offer, cap_rate and round_next,
\* whatever their session ids and whatever evaluate_offer, verify_carrier and
\* telemetry calls were served before, for any caller, in any order
C11_DecisionDependsOnInputsOnly ==
    (Answered /\ memo # NoMemo /\ SameInputs(memo[1])) =>
        /\ resp.decision = memo[1].decision
        /\ resp.next_offer = memo[1].next_offer
        /\ resp.cap_rate = memo[1].cap_rate
        /\ resp.round_next = memo[1].round_next

\* the same request answered again under another session id, after a carrier was
\* verified and telemetry events were logged in between, with a counter
C11_Witness ==
    /\ Answered /\ memo # NoMemo /\ SameInputs(memo[1])
    /\ resp.session_id # memo[1].session_id
    /\ memo[1].verified = 0 /\ vresp.code = 200
    /\ memo[1].events = 0 /\ Cardinality(events) >= 2
    /\ \E r \in sessions : r.ended_at
    /\ Countered /\ resp.next_offer < resp.cap_rate

\* /verify_carrier answered although its upstream lookup raised or was unreachable
UpstreamFailed == vresp.code = 200 /\ vreq.upstream = "raises"

\* C14: when the upstream carrier lookup of verify_carrier raises or is unreachable,
\* the verdict has eligible = false and a status of unknown or not_found, never
\* authorized
C14_FailedLookupNeverEligible ==
    UpstreamFailed =>
        /\ ~vresp.eligible
        /\ vresp.status \in {Val("unknown"), Val("not_found")}

----------------------------------------------------------------------------
(* Properties of the registry client *)

Returned == pc = "returned"
Raised == pc = "raised"
\* the carrier string holds a digit
ValidMc == _digits(mcIn) # <<>>
\* the id was resolved and the carrier and authority records were fetched
Resolved == Returned /\ out.dot # JNull

\* C12: when the docket lookup yields no DOT id, verify_mc returns eligible =
\* false, status not_found and dot null, and the carrier, authority and
\* out-of-service endpoints are never fetched
C12_NoDotIsNotFound ==
    (Returned /\ registry.dot = 0) =>
        /\ ~out.eligible
        /\ out.status = "not_found"
        /\ out.dot = JNull
        /\ fetched = {"docket"}

\* an unknown carrier answered not_found after the docket lookup was retried
C12_Witness ==
    /\ Returned /\ registry.dot = 0 /\ ValidMc
    /\ out.status = "not_found"
    /\ call.endpoint = "docket" /\ Len(call.tries) = 2

\* a flag that is the letter Y, in either case
IsY(v) == v \in {F_Y, F_y}

Transient(o) == o = TimedOut \/ (o.kind = "response" /\ o.code \in {502, 503, 504})

\* C15: when the docket, carrier or authority fetch of verify_mc still fails
\* after its retries, verify_mc returns a best-effort verdict with eligible =
\* false and status unknown or not_found instead of raising (stated for carrier
\* strings that hold a digit)
C15_FailedFetchStillReturns ==
    ( /\ ValidMc
      /\ call.endpoint \in {"docket", "carrier", "authority"}
      /\ call.state = "raised"
      /\ Len(call.tries) = RETRIES + 1 ) =>
        /\ Returned
        /\ ~out.eligible
        /\ out.status \in {"unknown", "not_found"}

\* C16: the verdict (eligible, status) is fixed before the out-of-service
\* lookup: whatever that lookup does (success with any payload, or failure), the
\* step that ends it returns the verdict computed from what was fetched before,
\* and never raises
C16_VerdictIgnoresOosLookup ==
    [][ (pc = "oos" /\ pc' # "oos") =>
            /\ pc' = "returned"
            /\ out'.eligible = evaluate(out).eligible
            /\ out'.status = evaluate(out).status ]_vars

\* a carrier reported authorized although the out-of-service lookup failed
C16_Witness ==
    /\ Returned /\ out.eligible
    /\ call.endpoint = "oos" /\ call.state = "raised"
    /\ out.raw.oos = Omitted

\* C17: a carrier string without a digit makes verify_mc fail before any
\* registry lookup: no endpoint is fetched and no verdict is returned
C17_NoDigitNoLookup ==
    (pc # "idle" /\ ~ValidMc) => (fetched = {} /\ ~Returned)

\* C17, the endpoint: /verify_carrier answers a carrier string without a digit
\* with 400 and no verdict
C17_EndpointRejectsNoDigit ==
    (vreq.x_api_key = API_KEY /\ digits(vreq.mc) = <<>>) => vresp.code \in {0, 400}

\* the verdict for the same carrier when every payload is a plain object
reference_verdict ==
    LET r0 == [registry EXCEPT !.shape = AllObjects]
        d == docket_step(VerifyResult(out.mc), docket_payload(r0))
    IN  IF d.pc = "returned" THEN d.out
        ELSE evaluate([d.out EXCEPT !.raw.carrier = Val(carrier_payload(r0)),
                                    !.raw.authority = Val(authority_payload(r0))])

\* C18: the verdict is the same whichever tolerated shape (the object itself, a
\* list of objects, an object wrapping the list under "content") the docket,
\* carrier and authority payloads come in (stated for carrier strings that
\* hold a digit)
C18_VerdictSameForEveryShape ==
    ( /\ Returned /\ ValidMc
      /\ registry.shape.docket \in {"object", "list", "content"}
      /\ registry.shape.carrier \in {"object", "list", "content"}
      /\ registry.shape.authority \in {"object", "list", "content"} ) =>
        /\ out.eligible = reference_verdict.eligible
        /\ out.status = reference_verdict.status

\* C19: a _get_json attempt is followed by another one only after a transient
\* failure (a timeout or a 502, 503 or 504 response), whatever digits the
\* carrier string, the registry id or the URL hold (stated for carrier strings
\* that hold a digit)
C19_RetryOnlyTransient ==
    ValidMc => \A i \in 1 .. (Len(call.tries) - 1) : Transient(call.tries[i])

\* C20: every _get_json call ends after at most RETRIES + 1 = 3 attempts: a
\* success returns at once with no further attempt, a third failure raises,
\* and a running call always ends
C20_GetJsonEndsWithinThreeAttempts ==
    /\ [] /\ Len(call.tries) <= RETRIES + 1
          /\ \A i \in 1 .. (Len(call.tries) - 1) : call.tries[i] # Response200
          /\ call.state = "returned" <=>
                (call.tries # <<>> /\ call.tries[Len(call.tries)] = Response200)
          /\ call.state = "running" => Len(call.tries) <= RETRIES
          /\ (Len(call.tries) = RETRIES + 1 /\ call.tries[RETRIES + 1] # Response200)
                => call.state = "raised"
    /\ [](call.state = "running" => <>(call.state \in {"returned", "raised"}))

\* a call that raised on its third attempt after two transient failures
C20_Witness ==
    /\ call.state = "raised" /\ Len(call.tries) = RETRIES + 1
    /\ Transient(call.tries[1]) /\ Transient(call.tries[2])
    /\ call.tries[3] = HttpError(503)

----------------------------------------------------------------------------
(* Claims about the 401 answer and the raw payloads *)

\* the RuntimeError _get_json raises for a 401 answer
Unauthorized == Exc(FALSE, <<70, 77, 67, 83, 65, 32, 52, 48, 49, 32, 85, 110, 97, 117, 116, 104, 111, 114, 105, 122, 101, 100, 32, 40, 99, 104, 101, 99, 107, 32, 119, 101, 98, 75, 101, 121, 41>>)

\* C21: a 401 answer is never retried: the attempt that got it is the last of
\* its call (the only one when it is the first), the call does not go on to
\* the sleep before another attempt, and it raises the error for 401, which
\* differs from the error raised for every other failed attempt, whatever
\* digits the URL holds
C21_UnauthorizedNeverRetried ==
    /\ \A i \in 1 .. Len(call.tries) :
          call.tries[i] = HttpError(401) =>
              /\ i = Len(call.tries)
              /\ call.state = "raised"
              /\ call.exc = Unauthorized
    /\ ( /\ call.state \in {"running", "raised"}
         /\ call.tries[Len(call.tries)] # HttpError(401) ) => call.exc # Unauthorized

\* a 401 on the first attempt of a lookup whose URL holds "502"
C21_Witness ==
    /\ call.tries = <<HttpError(401)>>
    /\ call.state = "raised"
    /\ Contains(<<53, 48, 50>>, endpoint_url(call.endpoint, out.mc, out.dot))

\* C22: every verdict verify_mc returns, positive or negative, carries in raw
\* the payload of every lookup that completed before it was built: the docket
\* payload always, the carrier and authority payloads whenever a dot was
\* resolved (and nothing but the docket payload when none was), and the
\* out-of-service payload exactly when that fetch succeeded
C22_RawCarriesEveryPayload ==
    Returned =>
        /\ out.raw.docketLookup = Val(docket_payload(registry))
        /\ ~Falsy(out.dot) =>
              /\ out.raw.carrier = Val(carrier_payload(registry))
              /\ out.raw.authority = Val(authority_payload(registry))
        /\ Falsy(out.dot) =>
              /\ out.raw.carrier = Omitted
              /\ out.raw.authority = Omitted
              /\ out.raw.oos = Omitted
        /\ IsVal(out.raw.oos) <=> (call.endpoint = "oos" /\ call.state = "returned")
        /\ IsVal(out.raw.oos) => Get(out.raw.oos) \in OosPayloads

\* a negative verdict for a carrier the registry does not know
C22_Witness ==
    /\ Returned /\ ~out.eligible /\ out.status = "not_found"
    /\ IsVal(out.raw.docketLookup)
    /\ out.raw.carrier = Omitted

\* a verdict built after the out-of-service fetch failed
C22_WitnessWithoutOos ==
    /\ Returned /\ out.status \in {"authorized", "out_of_service", "not_authorized"}
    /\ IsVal(out.raw.carrier) /\ IsVal(out.raw.authority)
    /\ out.raw.oos = Omitted

----------------------------------------------------------------------------
(* Claims about the counter offer *)

\* the target of a counter: min(cap, ask)
Target == Min(resp.cap_rate, req.p.carrier_offer)

\* C23: whenever evaluate_offer counters, next_offer is at least the our_offer
\* it was called with, for every cap, ask and round
C23_CounterNeverBelowOurOffer ==
    Countered => resp.next_offer >= req.p.our_offer

\* a counter that holds the line: our last offer is at the cap and the ask above it
C23_Witness ==
    /\ Countered /\ ValidRequest
    /\ req.p.our_offer = resp.cap_rate
    /\ req.p.carrier_offer > resp.cap_rate
    /\ resp.next_offer = req.p.our_offer

\* C24: whenever evaluate_offer counters while our_offer is below the target
\* min(ask, cap), the next offer is above our_offer and at most the target, so
\* never above the carrier's ask (stated for the requests with valid numbers)
C24_CounterBetweenOfferAndTarget ==
    (Countered /\ ValidRequest /\ req.p.our_offer < Target) =>
        /\ req.p.our_offer < resp.next_offer
        /\ resp.next_offer <= Target

\* C25: from round 3 on, when evaluate_offer counters and the concession step
\* leaves the offer below the target min(cap, ask), next_offer is the cap
\* (stated for the requests with valid numbers)
C25_FinalRoundGoesToCap ==
    ( /\ Countered /\ ValidRequest
      /\ req.p.round >= 3
      /\ concession_step(resp.cap_rate, req.p.our_offer, req.p.carrier_offer, req.p.round)
            < Target ) =>
        resp.next_offer = resp.cap_rate

----------------------------------------------------------------------------
(* Claims about the cap and the offers under it *)

\* C26: for every non-negative listed rate, every miles value and every
\* equipment type, compute_cap is at least the listed rate
C26_CapAtLeastListedRate ==
    (capOut # <<>> /\ capIn.listed_rate >= 0) => capOut[1] >= capIn.listed_rate

\* C27: a request whose our_offer is at most the cap is answered with a
\* next_offer that is at most the cap; and when the caller threads that answer
\* into the next request for the same load, the next request's our_offer and
\* its answer's next_offer are again at most the (same) cap, whatever the
\* carrier asks: by induction our_offer <= cap_rate in every round of a
\* threaded session whose first our_offer is at most the cap
C27_OfferStaysWithinCap ==
    /\ []((Answered /\ req.p.our_offer <= resp.cap_rate) =>
              resp.next_offer <= resp.cap_rate)
    /\ [][ (Answered /\ req.p.our_offer <= resp.cap_rate /\ prevNext' # <<>>) =>
              /\ resp'.cap_rate = resp.cap_rate
              /\ req'.p.our_offer = resp.next_offer
              /\ req'.p.our_offer <= resp'.cap_rate
              /\ resp'.next_offer <= resp'.cap_rate ]_vars

\* a threaded round, above an ask over the cap, whose concession is cut at the cap
C27_Witness ==
    /\ Countered /\ ValidRequest
    /\ prevNext # <<>>
    /\ req.p.round >= 2
    /\ req.p.our_offer < resp.cap_rate
    /\ req.p.carrier_offer > resp.cap_rate
    /\ resp.next_offer = resp.cap_rate

----------------------------------------------------------------------------
(* One negotiation session in which the carrier repeats its ask *)

\* the caller gives up after this many rounds
MaxSessionRound == 40

\* the first request of the session: any offer, any ask, any round
SessionOpen ==
    /\ resp.status = 0
    /\ \E our \in Amounts(load.listed_rate), ask \in Amounts(load.listed_rate), rnd \in Rounds :
            Handle(load.listed_rate, our, ask, rnd, NoSid, API_KEY, NoSid,
                   rnd = 1 /\ our = load.listed_rate, FALSE)
    /\ UNCHANGED <<memo, served>>

\* the guard of SessionRepeat: the session was countered and the caller has not
\* given up
SessionGoesOn ==
    /\ resp.status = 200
    /\ resp.decision = "counter"
    /\ resp.round_next <= MaxSessionRound

\* the carrier repeats its ask; the caller threads next_offer, round_next and
\* session_id of the last answer into the next request
SessionRepeat ==
    /\ SessionGoesOn
    /\ Handle(load.listed_rate, resp.next_offer, req.p.carrier_offer, resp.round_next,
              resp.session_id, API_KEY, NoSid, fromStart, TRUE)
    /\ UNCHANGED <<memo, served>>

NextSession == SessionOpen \/ SessionRepeat

\* a session that was countered goes on, the caller sends the next round: weak
\* fairness of SessionRepeat, WF_vars(SessionRepeat), written out with its
\* guard for ENABLED <<SessionRepeat>>_vars (the step always changes the round)
SpecSession ==
    Init /\ [][NextSession]_vars /\ (([]<>~SessionGoesOn) \/ ([]<><<SessionRepeat>>_vars))

\* C28: in a threaded session in which the carrier repeats the same ask, an
\* ask at or below the cap is eventually accepted at that ask, after finitely
\* many counter rounds (fewer than MaxSessionRound)
C28_RepeatedAskEventuallyAccepted ==
    (Answered /\ req.p.carrier_offer <= resp.cap_rate) ~>
        (Accepted /\ resp.next_offer = req.p.carrier_offer)

\* an ask accepted after at least four counters
C28_Witness ==
    /\ Accepted /\ ValidRequest
    /\ prevNext # <<>>
    /\ req.p.round >= 5
    /\ resp.next_offer = req.p.carrier_offer
    /\ req.p.carrier_offer <= resp.cap_rate

----------------------------------------------------------------------------
(* Claims about the telemetry tables *)

\* a step in which end_session(sid, summary) was called and returned
SessionEnded(sid, summary) ==
    /\ sessions' = end_session_sessions(sessions, sid, summary)
    /\ events' = end_session_events(events, sid, summary)
    /\ served' = served + 1
    /\ UNCHANGED <<load, req, resp, uuids, vreq, vresp>>

\* C29: after end_session(session_id, summary) returns, with or without a
\* summary and whether or not the session id was known before, every sessions
\* row of that id has ended_at set, whatever calls came before
C29_EndedSessionHasEndedAt ==
    [][ \A sid \in KnownSids, summary \in Summaries :
            SessionEnded(sid, summary) =>
                \A r \in sessions' : r.session_id = sid => r.ended_at ]_vars

====
